---- MODULE Spec2Model ----
(***************************************************************************)
(* A model of clippy, a declarative command-line framework written in Go.  *)
(*                                                                         *)
(* Go strings are modelled as sequences of runes, a rune as a one-letter   *)
(* TLA+ string, so that "--" + flag.Name and "-" + string(flag.Alias) are  *)
(* real concatenations and the character classes of Flag.check and         *)
(* Command.check are decided rune by rune.                                 *)
(***************************************************************************)
EXTENDS Integers, Sequences, FiniteSets, TLC

VARIABLES
    pc,              \* "ready" before the operation under study ran, "done" after
    op,              \* the operation that ran ("none" before)
    fs,              \* the FlagSet handed to FlagSet.parse / FlagSet.check
    cmds,            \* the CommandSet handed to CommandSet.check
    params,          \* the token sequence
    prog,            \* the Clippy value: Flags, Commands, Action
    handlerReturns,  \* TRUE when the installed ErrHandlers return to their caller
    result,          \* what a pure operation returned
    out,             \* texts written to stdout, in order
    handled,         \* calls of the ErrHandlers, in order
    invoked,         \* calls of Action values, in order
    parsed,          \* calls of FlagSet.parse made by Run, in order
    dispatched,      \* calls of Command.run made by Run, in order
    exit             \* how Run ended: "return", "panic" or an exit code

vars == <<pc, op, fs, cmds, params, prog, handlerReturns, result,
          out, handled, invoked, parsed, dispatched, exit>>

(***************************************************************************)
(* Bounds of the model.                                                    *)
(***************************************************************************)
MaxParams == 3      \* longest token sequence given to FlagSet.parse
MaxFlags == 2       \* most flags in a FlagSet
MaxRunParams == 3   \* longest token sequence given to Clippy.Run
MaxCommands == 2    \* most commands in a CommandSet

(***************************************************************************)
(* Runes and strings.                                                      *)
(***************************************************************************)
NUL == "0"                       \* rune(0): the absent alias; the rune of EmptyValue
Letters == {"a", "b", "d", "e", "h", "i", "l", "n", "o", "p", "r", "s", "t", "u", "v", "x"}
Digits == {"1"}

IsLetter(char) == char \in Letters
IsNumber(char) == char \in Digits

EmptyString == <<>>
EmptyValue == <<NUL>>

RECURSIVE SeqsUpTo(_, _)
SeqsUpTo(S, n) ==
    IF n = 0 THEN {<<>>}
    ELSE LET shorter == SeqsUpTo(S, n - 1)
         IN shorter \cup {Append(s, x) : s \in {t \in shorter : Len(t) = n - 1}, x \in S}

Range(s) == {s[i] : i \in DOMAIN s}

(***************************************************************************)
(* Errors: a message and the value formatted into it.                      *)
(***************************************************************************)
Nil == [msg |-> "nil", arg |-> <<>>]
Errorf(msg, arg) == [msg |-> msg, arg |-> arg]

(***************************************************************************)
(* Flag and FlagSet (flag.go).  A Flag is [Name, Alias, DefaultValue]; Type *)
(* and Description only feed the help text.                                *)
(***************************************************************************)
FlagCheck(f) ==
    IF f.Name = EmptyString
    THEN Errorf("missing name of flag", <<>>)
    ELSE IF \E i \in DOMAIN f.Name :
                ~IsLetter(f.Name[i]) /\ ~IsNumber(f.Name[i]) /\ f.Name[i] # "-"
    THEN LET i == CHOOSE j \in DOMAIN f.Name :
                     /\ ~IsLetter(f.Name[j]) /\ ~IsNumber(f.Name[j]) /\ f.Name[j] # "-"
                     /\ \A k \in 1..(j - 1) :
                            IsLetter(f.Name[k]) \/ IsNumber(f.Name[k]) \/ f.Name[k] = "-"
         IN Errorf("invalid character in flag name", <<f.Name[i]>>)
    ELSE IF f.Alias # NUL /\ ~IsLetter(f.Alias) /\ ~IsNumber(f.Alias)
    THEN Errorf("flag alias is an invalid character", <<f.Alias>>)
    ELSE Nil

\* FlagSet.check that does not record the aliases it has seen.
RECURSIVE FlagSetCheckForgetsAliases(_, _, _)
FlagSetCheckForgetsAliases(flags, i, names) ==
    IF i > Len(flags) THEN Nil
    ELSE LET f == flags[i]
         IN IF FlagCheck(f) # Nil THEN FlagCheck(f)
            ELSE IF f.Name \in names
            THEN Errorf("duplicate flag name or alias", f.Name)
            ELSE IF f.Alias # NUL /\ <<f.Alias>> \in (names \cup {f.Name})
            THEN Errorf("duplicate flag name or alias", <<f.Alias>>)
            ELSE FlagSetCheckForgetsAliases(flags, i + 1, names \cup {f.Name})

\* The loop of FlagSet.check from flag i on; names is the map of names seen.
RECURSIVE FlagSetCheckFrom(_, _, _)
FlagSetCheckFrom(flags, i, names) ==
    IF i > Len(flags) THEN Nil
    ELSE LET f == flags[i]
         IN IF FlagCheck(f) # Nil THEN FlagCheck(f)
            ELSE IF f.Name \in names
            THEN Errorf("duplicate flag name or alias", f.Name)
            ELSE IF f.Alias # NUL
            THEN IF <<f.Alias>> \in (names \cup {f.Name})
                 THEN Errorf("duplicate flag name or alias", <<f.Alias>>)
                 ELSE FlagSetCheckFrom(flags, i + 1, names \cup {f.Name, <<f.Alias>>})
            ELSE FlagSetCheckFrom(flags, i + 1, names \cup {f.Name})

FlagSetCheck(flags) == FlagSetCheckFrom(flags, 1, {})

\* FlagSet.get: the index of the first flag the token names, 0 for nil.
FlagMatches(flag, name) ==
    \/ <<"-", "-">> \o flag.Name = name
    \/ (flag.Alias # NUL /\ <<"-", flag.Alias>> = name)

FlagSetGet(flags, name) ==
    IF \E i \in DOMAIN flags : FlagMatches(flags[i], name)
    THEN CHOOSE i \in DOMAIN flags :
             /\ FlagMatches(flags[i], name)
             /\ \A j \in 1..(i - 1) : ~FlagMatches(flags[j], name)
    ELSE 0

\* The map flags with flags[name] = value assigned.
MapSet(flags, name, value) == (name :> value) @@ flags
EmptyMap == [x \in {} |-> <<>>]

\* ParseDefaults without the EmptyValue case: the sentinel is inserted as it is.
RECURSIVE ParseDefaultsKeepsSentinel(_, _, _, _)
ParseDefaultsKeepsSentinel(flags_, k, flags, args) ==
    IF k > Len(flags_) THEN [flags |-> flags, args |-> args, err |-> Nil]
    ELSE LET f == flags_[k]
         IN IF f.Name \in DOMAIN flags
            THEN ParseDefaultsKeepsSentinel(flags_, k + 1, flags, args)
            ELSE IF f.DefaultValue = EmptyString
            THEN [flags |-> flags, args |-> args,
                  err |-> Errorf("no given or default value for flag", f.Name)]
            ELSE ParseDefaultsKeepsSentinel(flags_, k + 1, MapSet(flags, f.Name, f.DefaultValue), args)

\* The second loop of FlagSet.parse: defaults, from flag k on.
RECURSIVE ParseDefaults(_, _, _, _)
ParseDefaults(flags_, k, flags, args) ==
    IF k > Len(flags_) THEN [flags |-> flags, args |-> args, err |-> Nil]
    ELSE LET f == flags_[k]
         IN IF f.Name \in DOMAIN flags
            THEN ParseDefaults(flags_, k + 1, flags, args)
            ELSE IF f.DefaultValue = EmptyString
            THEN [flags |-> flags, args |-> args,
                  err |-> Errorf("no given or default value for flag", f.Name)]
            ELSE IF f.DefaultValue = EmptyValue
            THEN ParseDefaults(flags_, k + 1, MapSet(flags, f.Name, EmptyString), args)
            ELSE ParseDefaults(flags_, k + 1, MapSet(flags, f.Name, f.DefaultValue), args)

\* ParseScan without the i++ after a flag: the value is scanned again as a token.
RECURSIVE ParseScanRescansValue(_, _, _, _, _)
ParseScanRescansValue(flags_, ps, i, flags, args) ==
    IF i > Len(ps) THEN ParseDefaults(flags_, 1, flags, args)
    ELSE LET param == ps[i]
             k == FlagSetGet(flags_, param)
         IN IF k # 0
            THEN IF i + 1 <= Len(ps)
                 THEN ParseScanRescansValue(flags_, ps, i + 1,
                                            MapSet(flags, flags_[k].Name, ps[i + 1]), args)
                 ELSE [flags |-> flags, args |-> args,
                       err |-> Errorf("no corresponding value for flag", param)]
            ELSE ParseScanRescansValue(flags_, ps, i + 1, flags, Append(args, param))

\* The first loop of FlagSet.parse: the scan of the tokens, from token i on.
RECURSIVE ParseScan(_, _, _, _, _)
ParseScan(flags_, ps, i, flags, args) ==
    IF i > Len(ps) THEN ParseDefaults(flags_, 1, flags, args)
    ELSE LET param == ps[i]
             k == FlagSetGet(flags_, param)
         IN IF k # 0
            THEN IF i + 1 <= Len(ps)
                 THEN ParseScan(flags_, ps, i + 2, MapSet(flags, flags_[k].Name, ps[i + 1]), args)
                 ELSE [flags |-> flags, args |-> args,
                       err |-> Errorf("no corresponding value for flag", param)]
            ELSE ParseScan(flags_, ps, i + 1, flags, Append(args, param))

\* FlagSet.parse: the named results (flags, args, err) as they stand at the return.
FlagSetParse(flags_, ps) == ParseScan(flags_, ps, 1, EmptyMap, <<>>)

(***************************************************************************)
(* Command and CommandSet.  A Command is [Names, Flags, Action]; an Action *)
(* value is "nil", "ok" (a handler that returns nil) or "err" (a handler   *)
(* that returns an error).                                                 *)
(***************************************************************************)
ValidNameChar(char) == IsLetter(char) \/ IsNumber(char) \/ char = "-"

\* The first bad rune of the first bad name, as the nested loops meet it.
FirstBadName(names) ==
    CHOOSE i \in DOMAIN names :
        /\ \E j \in DOMAIN names[i] : ~ValidNameChar(names[i][j])
        /\ \A k \in 1..(i - 1) : \A j \in DOMAIN names[k] : ValidNameChar(names[k][j])

FirstBadChar(name) ==
    name[CHOOSE j \in DOMAIN name :
             /\ ~ValidNameChar(name[j])
             /\ \A k \in 1..(j - 1) : ValidNameChar(name[k])]

\* The last loop of Command.check: f.check() of each flag, from flag i on.
RECURSIVE CommandFlagsCheckFrom(_, _)
CommandFlagsCheckFrom(flags, i) ==
    IF i > Len(flags) THEN Nil
    ELSE IF FlagCheck(flags[i]) # Nil THEN FlagCheck(flags[i])
    ELSE CommandFlagsCheckFrom(flags, i + 1)

CommandCheck(c) ==
    IF Len(c.Names) < 1
    THEN Errorf("missing name of command", <<>>)
    ELSE IF \E i \in DOMAIN c.Names : \E j \in DOMAIN c.Names[i] : ~ValidNameChar(c.Names[i][j])
    THEN Errorf("invalid character in command name",
                <<FirstBadChar(c.Names[FirstBadName(c.Names)])>>)
    ELSE CommandFlagsCheckFrom(c.Flags, 1)

\* The inner loop of CommandSet.check over the names of one command.
RECURSIVE CommandNamesCheckFrom(_, _, _)
CommandNamesCheckFrom(cnames, j, names) ==
    IF j > Len(cnames) THEN [err |-> Nil, names |-> names]
    ELSE IF cnames[j] \in names
    THEN [err |-> Errorf("duplicate command name", cnames[j]), names |-> names]
    ELSE CommandNamesCheckFrom(cnames, j + 1, names \cup {cnames[j]})

RECURSIVE CommandSetCheckFrom(_, _, _)
CommandSetCheckFrom(cs, i, names) ==
    IF i > Len(cs) THEN Nil
    ELSE IF CommandCheck(cs[i]) # Nil THEN CommandCheck(cs[i])
    ELSE LET r == CommandNamesCheckFrom(cs[i].Names, 1, names)
         IN IF r.err # Nil THEN r.err ELSE CommandSetCheckFrom(cs, i + 1, r.names)

CommandSetCheck(cs) == CommandSetCheckFrom(cs, 1, {})

\* CommandSet.get that compares the first name of each command only.
CommandSetGetFirstNameOnly(cs, name) ==
    IF \E i \in DOMAIN cs : Len(cs[i].Names) >= 1 /\ name = cs[i].Names[1]
    THEN CHOOSE i \in DOMAIN cs :
             /\ Len(cs[i].Names) >= 1 /\ name = cs[i].Names[1]
             /\ \A j \in 1..(i - 1) : ~(Len(cs[j].Names) >= 1 /\ name = cs[j].Names[1])
    ELSE 0

\* CommandSet.get: the index of the first command that has the name, 0 for nil.
CommandSetGet(cs, name) ==
    IF \E i \in DOMAIN cs : name \in Range(cs[i].Names)
    THEN CHOOSE i \in DOMAIN cs :
             /\ name \in Range(cs[i].Names)
             /\ \A j \in 1..(i - 1) : name \notin Range(cs[j].Names)
    ELSE 0

\* Clippy.Check
ClippyCheck(c) ==
    IF FlagSetCheck(c.Flags) # Nil THEN FlagSetCheck(c.Flags)
    ELSE IF CommandSetCheck(c.Commands) # Nil THEN CommandSetCheck(c.Commands)
    ELSE Nil

(***************************************************************************)
(* Actions and error handlers (action.go, error.go).                       *)
(***************************************************************************)
ActionExitCode == 1
ParseExitCode == 2
SetupExitCode == 3
ExitAfterHandler == 4

\* What calling an Action value returns.
ActionResult(a) == IF a = "err" THEN Errorf("action failed", <<>>) ELSE Nil
HelpActionResult == Errorf("use the --help global flag", <<>>)

\* How a Run stands or ended: still running, returned, panicked, or the
\* process ended with an exit code.
Running == [kind |-> "running", code |-> 0]
Returned == [kind |-> "return", code |-> 0]
Panicked == [kind |-> "panic", code |-> 0]
Exited(code) == [kind |-> "exit", code |-> code]
NotRun == [kind |-> "none", code |-> 0]

\* The observable record of one Run: nothing has happened yet.
Started ==
    [out |-> <<>>, handled |-> <<>>, invoked |-> <<>>, parsed |-> <<>>, dispatched |-> <<>>,
     exit |-> Running]

Emit(st, text) == [st EXCEPT !.out = Append(@, text)]
Invoke(st, which, flags, args) ==
    [st EXCEPT !.invoked = Append(@, [action |-> which, flags |-> flags, args |-> args])]
NoteParse(st, which, ps) ==
    [st EXCEPT !.parsed = Append(@, [flags |-> which, params |-> ps])]
NoteRun(st, i, ps) ==
    [st EXCEPT !.dispatched = Append(@, [command |-> i, params |-> ps])]
Panic(st) == [st EXCEPT !.exit = Panicked]
Return(st) == IF st.exit = Running THEN [st EXCEPT !.exit = Returned] ELSE st

\* An ErrHandler call: the default handlers end the process with their exit
\* code, a replaced handler may return to its caller.
CallHandler(st, handler, code, err, returns) ==
    [st EXCEPT !.handled = Append(@, [handler |-> handler, err |-> err]),
               !.exit = IF returns THEN @ ELSE Exited(code)]

\* chkErr of unnamed/part_000: the handler, then on.
ChkErr_part_000(st, err, handler, code, returns) ==
    IF err # Nil THEN CallHandler(st, handler, code, err, returns) ELSE st

\* chkErr of unnamed/part_001: the handler, then os.Exit(4).
ChkErr_part_001(st, err, handler, code, returns) ==
    IF err # Nil
    THEN LET s == CallHandler(st, handler, code, err, returns)
         IN IF s.exit = Running THEN [s EXCEPT !.exit = Exited(ExitAfterHandler)] ELSE s
    ELSE st

t_h == <<"-", "h">>
t_help == <<"-", "-", "h", "e", "l", "p">>
t_v == <<"-", "v">>
t_version == <<"-", "-", "v", "e", "r", "s", "i", "o", "n">>

\* The texts Run can print: c.help(), c.version() and a command's help(name).
HelpText == [text |-> "help", of |-> 0]
VersionText == [text |-> "version", of |-> 0]
CommandHelpText(i) == [text |-> "command help", of |-> i]

\* Command.run from "Parse parameters for flags and arguments" on, the same
\* in command.go and action.go: the result is [st, err].
CommandParseAndAct(st, cs, i, ps) ==
    LET r == FlagSetParse(cs[i].Flags, ps)
        s1 == NoteParse(st, i, ps)
    IN IF r.err # Nil THEN [st |-> s1, err |-> r.err]
       ELSE IF cs[i].Action = "nil"
       THEN [st |-> Invoke(s1, "DefaultAction", r.flags, r.args), err |-> Nil]
       ELSE [st |-> Invoke(s1, "Command", r.flags, r.args), err |-> ActionResult(cs[i].Action)]

\* Command.run(parameters) of command.go
CommandRun(st, cs, i, ps) == CommandParseAndAct(NoteRun(st, i, ps), cs, i, ps)

\* Command.run(name, params) of action.go: the help test comes first, and
\* params[0] is read when len(params) >= 1 && params[0] == "-h" is false.
CommandRunHelp(st, cs, i, ps) ==
    IF Len(ps) >= 1 /\ ps[1] = t_h
    THEN [st |-> Emit(NoteRun(st, i, ps), CommandHelpText(i)), err |-> Nil]
    ELSE IF Len(ps) = 0
    THEN [st |-> Panic(NoteRun(st, i, ps)), err |-> Nil]
    ELSE IF ps[1] = t_help
    THEN [st |-> Emit(NoteRun(st, i, ps), CommandHelpText(i)), err |-> Nil]
    ELSE CommandParseAndAct(NoteRun(st, i, ps), cs, i, ps)

(***************************************************************************)
(* Clippy.Run of unnamed/part_000: the first token decides.                *)
(***************************************************************************)
\* From "Parse flags and arguments" to the end.
RunGlobal_part_000(st, c, ps, returns) ==
    LET r == FlagSetParse(c.Flags, ps)
        s1 == ChkErr_part_000(NoteParse(st, 0, ps), r.err, "ParseErrHandler", ParseExitCode, returns)
        s2 == IF c.Action = "nil"
              THEN ChkErr_part_000(Invoke(s1, "HelpAction", r.flags, r.args), HelpActionResult,
                                   "ParseErrHandler", ParseExitCode, returns)
              ELSE s1
    IN IF s1.exit # Running THEN s1
       ELSE IF s2.exit # Running THEN s2
       ELSE IF c.Action = "nil" THEN Panic(s2)
       ELSE Return(ChkErr_part_000(Invoke(s2, "Action", r.flags, r.args), ActionResult(c.Action),
                                   "ActionErrHandler", ActionExitCode, returns))

\* From "Run subcommand or help or version" on.
RunDispatch_part_000(st, c, ps, returns) ==
    IF Len(ps) >= 1 /\ CommandSetGet(c.Commands, ps[1]) # 0
    THEN LET r == CommandRunHelp(st, c.Commands, CommandSetGet(c.Commands, ps[1]), Tail(ps))
         IN IF r.st.exit # Running THEN r.st
            ELSE Return(ChkErr_part_000(r.st, r.err, "ParseErrHandler", ParseExitCode, returns))
    ELSE IF Len(ps) >= 1 /\ ps[1] \in {t_h, t_help}
    THEN Return(Emit(st, HelpText))
    ELSE IF Len(ps) >= 1 /\ ps[1] \in {t_v, t_version}
    THEN Return(Emit(st, VersionText))
    ELSE RunGlobal_part_000(st, c, ps, returns)

Run_part_000(c, ps, returns) ==
    LET s1 == ChkErr_part_000(Started, ClippyCheck(c), "SetupErrHandler", SetupExitCode, returns)
    IN IF s1.exit # Running THEN s1 ELSE RunDispatch_part_000(s1, c, ps, returns)

(***************************************************************************)
(* Clippy.Run of unnamed/part_001: every token is scanned for help and      *)
(* version first, and chkErr ends the process after the handler.           *)
(***************************************************************************)
RunGlobal_part_001(st, c, ps, returns) ==
    LET r == FlagSetParse(c.Flags, ps)
        s1 == ChkErr_part_001(NoteParse(st, 0, ps), r.err, "ParseErrHandler", ParseExitCode, returns)
        s2 == IF c.Action = "nil"
              THEN ChkErr_part_001(Invoke(s1, "HelpAction", r.flags, r.args), HelpActionResult,
                                   "ParseErrHandler", ParseExitCode, returns)
              ELSE s1
    IN IF s1.exit # Running THEN s1
       ELSE IF s2.exit # Running THEN s2
       ELSE IF c.Action = "nil" THEN Panic(s2)
       ELSE Return(ChkErr_part_001(Invoke(s2, "Action", r.flags, r.args), ActionResult(c.Action),
                                   "ActionErrHandler", ActionExitCode, returns))

\* The first help or version token, 0 when there is none.
FirstGlobalToken(ps) ==
    IF \E i \in DOMAIN ps : ps[i] \in {t_h, t_help, t_v, t_version}
    THEN CHOOSE i \in DOMAIN ps :
             /\ ps[i] \in {t_h, t_help, t_v, t_version}
             /\ \A j \in 1..(i - 1) : ps[j] \notin {t_h, t_help, t_v, t_version}
    ELSE 0

RunDispatch_part_001(st, c, ps, returns) ==
    IF FirstGlobalToken(ps) # 0
    THEN IF ps[FirstGlobalToken(ps)] \in {t_help, t_h}
         THEN Return(Emit(st, HelpText))
         ELSE Return(Emit(st, VersionText))
    ELSE IF Len(ps) >= 1 /\ CommandSetGet(c.Commands, ps[1]) # 0
    THEN LET r == CommandRun(st, c.Commands, CommandSetGet(c.Commands, ps[1]), Tail(ps))
         IN Return(ChkErr_part_001(r.st, r.err, "ParseErrHandler", ParseExitCode, returns))
    ELSE RunGlobal_part_001(st, c, ps, returns)

Run_part_001(c, ps, returns) ==
    LET s1 == ChkErr_part_001(Started, ClippyCheck(c), "SetupErrHandler", SetupExitCode, returns)
    IN IF s1.exit # Running THEN s1 ELSE RunDispatch_part_001(s1, c, ps, returns)

(***************************************************************************)
(* The inputs of the parse study.                                          *)
(***************************************************************************)
s_out == <<"o", "u", "t">>
s_x == <<"x">>
s_d == <<"d">>
s_a == <<"a">>
t_out == <<"-", "-", "o", "u", "t">>
t_o == <<"-", "o">>
t_x == <<"-", "-", "x">>

ParseFlagPool ==
    [Name : {s_out}, Alias : {NUL, "o"}, DefaultValue : {EmptyString, EmptyValue, s_d}]
        \cup [Name : {s_x}, Alias : {NUL}, DefaultValue : {EmptyString, EmptyValue, s_d}]
ParseTokenPool == {t_out, t_o, t_x, s_a}

NoProg == [Flags |-> <<>>, Commands |-> <<>>, Action |-> "nil"]

InitParse ==
    /\ pc = "ready"
    /\ op = "none"
    /\ fs \in SeqsUpTo(ParseFlagPool, MaxFlags)
    /\ params \in SeqsUpTo(ParseTokenPool, MaxParams)
    /\ cmds = <<>>
    /\ prog = NoProg
    /\ handlerReturns = FALSE
    /\ result = [flags |-> EmptyMap, args |-> <<>>, err |-> Nil]
    /\ out = <<>> /\ handled = <<>> /\ invoked = <<>> /\ parsed = <<>> /\ dispatched = <<>>
    /\ exit = NotRun

\* flags, args, err := fs.parse(params)
Parse ==
    /\ pc = "ready"
    /\ pc' = "done"
    /\ op' = "parse"
    /\ result' = FlagSetParse(fs, params)
    /\ UNCHANGED <<fs, cmds, params, prog, handlerReturns, out, handled, invoked, parsed, dispatched, exit>>

NextParse == Parse
SpecParse == InitParse /\ [][NextParse]_vars

(***************************************************************************)
(* The inputs of the Run study: small programs with a mandatory global     *)
(* flag, at most one command "build" (alias "b"), and every kind of Action. *)
(***************************************************************************)
s_build == <<"b", "u", "i", "l", "d">>
s_b == <<"b">>

FOutReq == [Name |-> s_out, Alias |-> NUL, DefaultValue |-> EmptyString]
Actions == {"nil", "ok", "err"}

RunFlagSets == {<<FOutReq>>, <<FOutReq, FOutReq>>}
RunCommandSets ==
    {<<>>}
        \cup {<<[Names |-> <<s_build, s_b>>, Flags |-> <<FOutReq>>, Action |-> a]>> : a \in Actions}
        \cup {<<[Names |-> <<s_build, s_b>>, Flags |-> <<FOutReq, FOutReq>>, Action |-> "ok"]>>}
        \cup {<<[Names |-> <<s_build>>, Flags |-> <<>>, Action |-> "nil"],
                 [Names |-> <<s_out, s_b>>, Flags |-> <<>>, Action |-> "ok"]>>}
        \cup {<<[Names |-> <<s_build, s_b>>, Flags |-> <<>>, Action |-> "ok"],
                 [Names |-> <<s_b>>, Flags |-> <<>>, Action |-> "err"]>>}
RunTokenPool == {t_h, t_help, t_v, t_version, s_build, s_b, t_out}

InitRun ==
    /\ pc = "ready"
    /\ op = "none"
    /\ fs = <<>>
    /\ cmds = <<>>
    /\ params \in SeqsUpTo(RunTokenPool, MaxRunParams)
    /\ prog \in [Flags : RunFlagSets, Commands : RunCommandSets, Action : Actions]
    /\ handlerReturns \in BOOLEAN
    /\ result = [flags |-> EmptyMap, args |-> <<>>, err |-> Nil]
    /\ out = <<>> /\ handled = <<>> /\ invoked = <<>> /\ parsed = <<>> /\ dispatched = <<>>
    /\ exit = NotRun

\* c.Run(params), as unnamed/part_000 has it
Run000 ==
    /\ pc = "ready"
    /\ pc' = "done"
    /\ op' = "Run_part_000"
    /\ LET r == Run_part_000(prog, params, handlerReturns)
       IN /\ out' = r.out
          /\ handled' = r.handled
          /\ invoked' = r.invoked
          /\ parsed' = r.parsed
          /\ dispatched' = r.dispatched
          /\ exit' = r.exit
    /\ UNCHANGED <<fs, cmds, params, prog, handlerReturns, result>>

\* c.Run(params), as unnamed/part_001 has it
Run001 ==
    /\ pc = "ready"
    /\ pc' = "done"
    /\ op' = "Run_part_001"
    /\ LET r == Run_part_001(prog, params, handlerReturns)
       IN /\ out' = r.out
          /\ handled' = r.handled
          /\ invoked' = r.invoked
          /\ parsed' = r.parsed
          /\ dispatched' = r.dispatched
          /\ exit' = r.exit
    /\ UNCHANGED <<fs, cmds, params, prog, handlerReturns, result>>

NextRun == Run000 \/ Run001
SpecRun == InitRun /\ [][NextRun]_vars

(***************************************************************************)
(* What the specification says of FlagSet.parse, stated over the tokens.   *)
(***************************************************************************)
\* The token is "--name" or "-alias" of the flag.
TokenNames(tok, f) ==
    \/ tok = <<"-", "-">> \o f.Name
    \/ (f.Alias # NUL /\ tok = <<"-", f.Alias>>)

TokenDeclared(flags, tok) == \E k \in DOMAIN flags : TokenNames(tok, flags[k])

\* Token i is read as a flag: it names a declared flag and is not the value
\* of a flag read just before it.
RECURSIVE IsFlagPosition(_, _, _)
IsFlagPosition(flags, ps, i) ==
    /\ i \in DOMAIN ps
    /\ TokenDeclared(flags, ps[i])
    /\ (i = 1 \/ ~IsFlagPosition(flags, ps, i - 1))

\* The positions at which a value is supplied for the flag called name.
SuppliedAt(flags, ps, name) ==
    {i \in 1..(Len(ps) - 1) :
        /\ IsFlagPosition(flags, ps, i)
        /\ \E k \in DOMAIN flags : flags[k].Name = name /\ TokenNames(ps[i], flags[k])}

MaxOf(S) == CHOOSE i \in S : \A j \in S : j <= i

\* The tokens at the positions of S, in order, from position i on.
RECURSIVE TokensAt(_, _, _)
TokensAt(ps, S, i) ==
    IF i > Len(ps) THEN <<>>
    ELSE IF i \in S THEN <<ps[i]>> \o TokensAt(ps, S, i + 1)
    ELSE TokensAt(ps, S, i + 1)

\* The positions that are neither a flag nor the value after a flag.
ArgumentPositions(flags, ps) ==
    {i \in DOMAIN ps : ~IsFlagPosition(flags, ps, i) /\ ~IsFlagPosition(flags, ps, i - 1)}

ParseDone == pc = "done" /\ op = "parse"

\* C2: for a FlagSet that passes check(), parse fails with the missing-value
\* error when the last token is read as a flag, else with the missing-required
\* error naming a flag that has no supplied value and DefaultValue "", else
\* succeeds with a map whose keys are exactly the declared names, each mapped
\* to the (last) value supplied for it, else to its default, EmptyValue giving "".
ParseTotalOnValidFlagSet ==
    (ParseDone /\ FlagSetCheck(fs) = Nil) =>
        LET missing == {k \in DOMAIN fs :
                            /\ SuppliedAt(fs, params, fs[k].Name) = {}
                            /\ fs[k].DefaultValue = EmptyString}
        IN IF IsFlagPosition(fs, params, Len(params))
           THEN result.err = Errorf("no corresponding value for flag", params[Len(params)])
           ELSE IF missing # {}
           THEN /\ result.err.msg = "no given or default value for flag"
                /\ \E k \in missing : result.err.arg = fs[k].Name
           ELSE /\ result.err = Nil
                /\ DOMAIN result.flags = {fs[k].Name : k \in DOMAIN fs}
                /\ \A k \in DOMAIN fs :
                       result.flags[fs[k].Name] =
                           IF SuppliedAt(fs, params, fs[k].Name) # {}
                           THEN params[MaxOf(SuppliedAt(fs, params, fs[k].Name)) + 1]
                           ELSE IF fs[k].DefaultValue = EmptyValue THEN EmptyString
                           ELSE fs[k].DefaultValue

\* A successful parse of a valid two-flag set: one value supplied, one flag
\* defaulted from the EmptyValue sentinel.
ParseSuppliedAndSentinel ==
    /\ ParseDone /\ FlagSetCheck(fs) = Nil /\ result.err = Nil
    /\ \E k \in DOMAIN fs :
           /\ SuppliedAt(fs, params, fs[k].Name) # {}
           /\ result.flags[fs[k].Name] = s_a
    /\ \E k \in DOMAIN fs :
           /\ SuppliedAt(fs, params, fs[k].Name) = {}
           /\ fs[k].DefaultValue = EmptyValue
           /\ result.flags[fs[k].Name] = EmptyString

\* C3: on success the arguments are the input tokens, in order, without the
\* tokens read as flags and the one token after each of them; a value is never
\* read as a flag and an undeclared flag-like token stays an argument.
ParseArgsAreTheOtherTokens ==
    (ParseDone /\ result.err = Nil) =>
        result.args = TokensAt(params, ArgumentPositions(fs, params), 1)

\* A successful parse in which the value of a flag is itself a declared flag
\* token, and an undeclared "--x" is kept as an argument.
ParseValueLooksLikeFlag ==
    /\ ParseDone /\ result.err = Nil
    /\ \E i \in DOMAIN params :
           /\ IsFlagPosition(fs, params, i)
           /\ i + 1 \in DOMAIN params
           /\ TokenDeclared(fs, params[i + 1])
    /\ ~TokenDeclared(fs, t_x)
    /\ t_x \in Range(result.args)

\* C4 (as claimed): when parse returns an error, the flags and the arguments
\* returned with it are empty.
ParseAllOrNothing ==
    (ParseDone /\ result.err # Nil) =>
        (result.flags = EmptyMap /\ result.args = <<>>)

(***************************************************************************)
(* The inputs of the check study: flags with valid and invalid names and   *)
(* aliases, one-letter names that can meet an alias, and commands with     *)
(* valid, invalid and repeated names and flags.                            *)
(***************************************************************************)
s_o == <<"o">>
s_bad == <<"o", "_">>
s_o1 == <<"o", "-", "1">>

CheckFlagPool ==
    [Name : {s_x, s_o, s_out, EmptyString, s_bad, s_o1},
     Alias : {NUL, "o", "x", "-"},
     DefaultValue : {EmptyString}]

Fx == [Name |-> s_x, Alias |-> NUL, DefaultValue |-> EmptyString]
CheckCommandPool ==
    [Names : {<<>>, <<s_build>>, <<s_build, s_b>>, <<s_b>>, <<s_build, s_bad>>},
     Flags : {<<>>, <<Fx>>, <<Fx, Fx>>,
              <<[Name |-> s_bad, Alias |-> NUL, DefaultValue |-> EmptyString]>>,
              <<[Name |-> s_out, Alias |-> "x", DefaultValue |-> EmptyString], Fx>>},
     Action : {"ok"}]

InitCheck ==
    /\ pc = "ready"
    /\ op = "none"
    /\ \/ fs \in SeqsUpTo(CheckFlagPool, MaxFlags) /\ cmds = <<>>
       \/ fs = <<>> /\ cmds \in SeqsUpTo(CheckCommandPool, MaxCommands)
    /\ params = <<>>
    /\ prog = NoProg
    /\ handlerReturns = FALSE
    /\ result = Nil
    /\ out = <<>> /\ handled = <<>> /\ invoked = <<>> /\ parsed = <<>> /\ dispatched = <<>>
    /\ exit = NotRun

\* err := fs.check()
CheckFlagSet ==
    /\ pc = "ready"
    /\ pc' = "done"
    /\ op' = "FlagSet.check"
    /\ result' = FlagSetCheck(fs)
    /\ UNCHANGED <<fs, cmds, params, prog, handlerReturns, out, handled, invoked, parsed, dispatched, exit>>

\* err := cs.check()
CheckCommandSet ==
    /\ pc = "ready"
    /\ pc' = "done"
    /\ op' = "CommandSet.check"
    /\ result' = CommandSetCheck(cmds)
    /\ UNCHANGED <<fs, cmds, params, prog, handlerReturns, out, handled, invoked, parsed, dispatched, exit>>

\* err := c.Check(), of the Clippy with these flags and commands
CheckClippy ==
    /\ pc = "ready"
    /\ pc' = "done"
    /\ op' = "Clippy.Check"
    /\ result' = ClippyCheck([Flags |-> fs, Commands |-> cmds, Action |-> "nil"])
    /\ UNCHANGED <<fs, cmds, params, prog, handlerReturns, out, handled, invoked, parsed, dispatched, exit>>

NextCheck == CheckFlagSet \/ CheckCommandSet \/ CheckClippy
SpecCheck == InitCheck /\ [][NextCheck]_vars

(***************************************************************************)
(* What the specification says of the checks.                              *)
(***************************************************************************)
\* Every name and every alias of the set, each with the place it is declared at.
Identifiers(flags) ==
    {[flag |-> i, slot |-> "name", id |-> flags[i].Name] : i \in DOMAIN flags}
        \cup {[flag |-> i, slot |-> "alias", id |-> <<flags[i].Alias>>] :
                  i \in {j \in DOMAIN flags : flags[j].Alias # NUL}}

PairwiseDistinct(flags) ==
    \A e1, e2 \in Identifiers(flags) : e1 # e2 => e1.id # e2.id

\* The names and aliases declared before flag i.
SeenBefore(flags, i) == {e.id : e \in {d \in Identifiers(flags) : d.flag < i}}

\* Flag i is invalid, or its name or alias meets a name or alias seen earlier.
Offends(flags, i) ==
    \/ FlagCheck(flags[i]) # Nil
    \/ flags[i].Name \in SeenBefore(flags, i)
    \/ /\ flags[i].Alias # NUL
       /\ <<flags[i].Alias>> \in SeenBefore(flags, i) \cup {flags[i].Name}

\* C9: FlagSet.check succeeds exactly when every flag is valid and all names
\* and aliases are pairwise distinct in one namespace; when it fails, the error
\* is that of the first flag that is invalid or meets an earlier name or alias.
FlagSetCheckOneNamespace ==
    (pc = "done" /\ op = "FlagSet.check") =>
        /\ (result = Nil) <=>
               ((\A i \in DOMAIN fs : FlagCheck(fs[i]) = Nil) /\ PairwiseDistinct(fs))
        /\ (result # Nil) =>
               LET i == CHOOSE k \in DOMAIN fs :
                            Offends(fs, k) /\ \A j \in 1..(k - 1) : ~Offends(fs, j)
               IN result =
                      IF FlagCheck(fs[i]) # Nil THEN FlagCheck(fs[i])
                      ELSE IF fs[i].Name \in SeenBefore(fs, i)
                      THEN Errorf("duplicate flag name or alias", fs[i].Name)
                      ELSE Errorf("duplicate flag name or alias", <<fs[i].Alias>>)

\* Two valid flags share an alias and differ in name: the check reports the alias.
FlagSetCheckSharedAlias ==
    /\ pc = "done" /\ op = "FlagSet.check"
    /\ Len(fs) = 2
    /\ fs[1].Name # fs[2].Name
    /\ fs[1].Alias = "x" /\ fs[2].Alias = "x"
    /\ fs[1].Name # s_x /\ fs[2].Name # s_x
    /\ result = Errorf("duplicate flag name or alias", <<"x">>)

\* C10 (as claimed): a command whose FlagSet fails FlagSet.check() with the
\* duplicate-flag error fails CommandSet.check() and Clippy.Check().
CommandCheckAppliesFlagSetCheck ==
    (/\ pc = "done" /\ op \in {"CommandSet.check", "Clippy.Check"}
     /\ \E i \in DOMAIN cmds :
            FlagSetCheck(cmds[i].Flags).msg = "duplicate flag name or alias")
        => result # Nil

(***************************************************************************)
(* What the specification says of Clippy.Run.                              *)
(***************************************************************************)
RunDone == pc = "done" /\ op \in {"Run_part_000", "Run_part_001"}

HasHelpToken(ps) == \E i \in DOMAIN ps : ps[i] \in {t_h, t_help}
HasVersionToken(ps) == \E i \in DOMAIN ps : ps[i] \in {t_v, t_version}

\* The commands that declare the token as a name or an alias.
CommandsNamed(cs, tok) == {i \in DOMAIN cs : \E j \in DOMAIN cs[i].Names : cs[i].Names[j] = tok}

ParseMessages == {"no corresponding value for flag", "no given or default value for flag"}
SetupMessages ==
    {"missing name of flag", "invalid character in flag name", "flag alias is an invalid character",
     "duplicate flag name or alias", "missing name of command",
     "invalid character in command name", "duplicate command name"}

\* C1 (as claimed), even for a schema that passes Check(): when the tokens
\* hold -h, --help, -v or --version at any position, Run prints the help text
\* (there is a help token) or the version text (there is a version token),
\* returns, and does nothing else: no command is run, nothing is parsed, no
\* Action is called, no ErrHandler is called.
HelpVersionAnywhere ==
    (/\ RunDone /\ ClippyCheck(prog) = Nil
     /\ (HasHelpToken(params) \/ HasVersionToken(params))) =>
        /\ \/ HasHelpToken(params) /\ out = <<HelpText>>
           \/ HasVersionToken(params) /\ out = <<VersionText>>
        /\ exit = Returned
        /\ dispatched = <<>> /\ parsed = <<>> /\ invoked = <<>> /\ handled = <<>>

\* C5 (as claimed): an error of Check() goes to SetupErrHandler only, an error
\* of FlagSet.parse to ParseErrHandler only, and the error an Action returned,
\* the top-level Action or the Action of a command, to ActionErrHandler only.
ErrorsRoutedByKind ==
    RunDone =>
        \A i \in DOMAIN handled :
            /\ handled[i].err.msg \in SetupMessages => handled[i].handler = "SetupErrHandler"
            /\ handled[i].err.msg \in ParseMessages => handled[i].handler = "ParseErrHandler"
            /\ handled[i].err.msg = "action failed" => handled[i].handler = "ActionErrHandler"

\* C6 (as claimed): when Check() fails or a FlagSet.parse fails, no Action of
\* any kind is called and at most one ErrHandler is called, whether the
\* installed ErrHandlers end the process or return.
NoActionAfterSetupOrParseError ==
    (/\ RunDone
     /\ \E i \in DOMAIN handled : handled[i].err.msg \in SetupMessages \cup ParseMessages)
        => (invoked = <<>> /\ Len(handled) <= 1)

\* C7 (as claimed), for a schema that passes Check(): when the first token
\* names a command and the second is -h or --help, the text printed is the help
\* of that command, its flags are not parsed and no Action is called.
CommandHelpIsCommandsOwn ==
    (/\ RunDone /\ ClippyCheck(prog) = Nil
     /\ Len(params) >= 2
     /\ CommandsNamed(prog.Commands, params[1]) # {}
     /\ params[2] \in {t_h, t_help})
        => /\ \E i \in CommandsNamed(prog.Commands, params[1]) : out = <<CommandHelpText(i)>>
           /\ parsed = <<>> /\ invoked = <<>>

\* C8: for a schema that passes Check() and tokens without a help or version
\* token, Run runs a command exactly when the first token is a declared name or
\* alias; the command is the only one that declares it and is handed the tokens
\* after the first, and the global FlagSet is not parsed.  Otherwise no command
\* is run and the first parse is that of all the tokens by the global FlagSet.
DispatchOnFirstToken ==
    (/\ RunDone /\ ClippyCheck(prog) = Nil
     /\ ~HasHelpToken(params) /\ ~HasVersionToken(params))
        => LET named == IF Len(params) >= 1
                        THEN CommandsNamed(prog.Commands, params[1]) ELSE {}
           IN /\ Cardinality(named) <= 1
              /\ named # {} =>
                     /\ \E i \in named :
                            dispatched = <<[command |-> i, params |-> Tail(params)]>>
                     /\ \A k \in DOMAIN parsed : parsed[k].flags # 0
              /\ named = {} =>
                     /\ dispatched = <<>>
                     /\ Len(parsed) = 1
                     /\ parsed[1] = [flags |-> 0, params |-> params]

\* A command is run by its alias while the mandatory global flag --out is
\* absent: the command's Action is called and no ErrHandler.
DispatchByAliasNoGlobalParse ==
    /\ RunDone /\ ClippyCheck(prog) = Nil
    /\ params = <<s_b, t_out, s_build>>
    /\ prog.Flags = <<FOutReq>>
    /\ dispatched = <<[command |-> 1, params |-> <<t_out, s_build>>]>>
    /\ Len(invoked) = 1 /\ invoked[1].action = "Command"
    /\ handled = <<>>

(***************************************************************************)
(* The inputs of the Command.run study: one command "build" with no flag,  *)
(* a mandatory flag or a flag with a default, every kind of Action, and    *)
(* the tokens that remain after the command name.                          *)
(***************************************************************************)
FOutDefault == [Name |-> s_out, Alias |-> "o", DefaultValue |-> s_d]
CommandRunPool ==
    [Names : {<<s_build>>}, Flags : {<<>>, <<FOutReq>>, <<FOutDefault>>}, Action : Actions]
CommandRunTokenPool == {t_h, t_help, t_out, t_o, s_a}

InitCommandRun ==
    /\ pc = "ready"
    /\ op = "none"
    /\ fs = <<>>
    /\ cmds \in {<<c>> : c \in CommandRunPool}
    /\ params \in SeqsUpTo(CommandRunTokenPool, MaxParams)
    /\ prog = NoProg
    /\ handlerReturns = FALSE
    /\ result = Nil
    /\ out = <<>> /\ handled = <<>> /\ invoked = <<>> /\ parsed = <<>> /\ dispatched = <<>>
    /\ exit = NotRun

\* err := command.run(params), as command.go has it
RunCommand ==
    /\ pc = "ready"
    /\ pc' = "done"
    /\ op' = "Command.run"
    /\ LET r == CommandRun(Started, cmds, 1, params)
       IN /\ result' = r.err
          /\ out' = r.st.out
          /\ invoked' = r.st.invoked
          /\ parsed' = r.st.parsed
          /\ dispatched' = r.st.dispatched
          /\ exit' = Return(r.st).exit
    /\ UNCHANGED <<fs, cmds, params, prog, handlerReturns, handled>>

\* err := command.run(name, params), as action.go has it
RunCommandHelp ==
    /\ pc = "ready"
    /\ pc' = "done"
    /\ op' = "Command.run with help"
    /\ LET r == CommandRunHelp(Started, cmds, 1, params)
       IN /\ result' = r.err
          /\ out' = r.st.out
          /\ invoked' = r.st.invoked
          /\ parsed' = r.st.parsed
          /\ dispatched' = r.st.dispatched
          /\ exit' = Return(r.st).exit
    /\ UNCHANGED <<fs, cmds, params, prog, handlerReturns, handled>>

NextCommandRun == RunCommand \/ RunCommandHelp
SpecCommandRun == InitCommandRun /\ [][NextCommandRun]_vars

(***************************************************************************)
(* What the specification says of Command.run.                             *)
(***************************************************************************)
CommandRunDone == pc = "done" /\ op \in {"Command.run", "Command.run with help"}

\* C11 (as claimed): when the first remaining token is not -h or --help, the
\* empty sequence included, Command.run returns: it parses exactly those tokens
\* with the command's FlagSet; when the parse succeeds it calls one handler
\* once, the Action or DefaultAction for a nil Action, with the parsed flags
\* and arguments and returns what it returned; when the parse fails it returns
\* the parse error and calls no handler.
CommandRunParsesThenActs ==
    (CommandRunDone /\ (Len(params) = 0 \/ params[1] \notin {t_h, t_help})) =>
        LET c == cmds[1]
            r == FlagSetParse(c.Flags, params)
        IN /\ exit = Returned
           /\ parsed = <<[flags |-> 1, params |-> params]>>
           /\ out = <<>>
           /\ IF r.err = Nil
              THEN /\ invoked = <<[action |-> IF c.Action = "nil" THEN "DefaultAction"
                                              ELSE "Command",
                                   flags |-> r.flags, args |-> r.args]>>
                   /\ result = IF c.Action = "err" THEN ActionResult("err") ELSE Nil
              ELSE /\ invoked = <<>>
                   /\ result = r.err

(***************************************************************************)
(* What the specification says of the global branch of Clippy.Run.         *)
(***************************************************************************)
\* Run reaches the global branch and its parse succeeds: the schema passes
\* Check(), no token asks for help or version, the first token names no
\* command, and the global FlagSet parses all the tokens.
GlobalBranchParsed ==
    /\ RunDone /\ ClippyCheck(prog) = Nil
    /\ ~HasHelpToken(params) /\ ~HasVersionToken(params)
    /\ (Len(params) = 0 \/ CommandsNamed(prog.Commands, params[1]) = {})
    /\ FlagSetParse(prog.Flags, params).err = Nil

\* C12 (as claimed): in the global branch after a successful parse, with no
\* top-level Action, Run calls HelpAction with the parsed flags and arguments
\* and nothing else, its error is handed to one ErrHandler once, and the nil
\* Action is never called; with a top-level Action, Run calls it once with the
\* parsed flags and arguments and does not call HelpAction.
GlobalBranchActionOrHelpAction ==
    GlobalBranchParsed =>
        LET r == FlagSetParse(prog.Flags, params)
        IN IF prog.Action = "nil"
           THEN /\ invoked = <<[action |-> "HelpAction", flags |-> r.flags, args |-> r.args]>>
                /\ Len(handled) = 1
                /\ handled[1].err = HelpActionResult
                /\ exit # Panicked
           ELSE invoked = <<[action |-> "Action", flags |-> r.flags, args |-> r.args]>>

====
